---- MODULE Spec2Model ----
(***************************************************************************)
(* Model of backend/bloomberg-python-service/bloomberg_api.py: the vendor  *)
(* session adapter, the index screener, the batched reference-data         *)
(* fetcher, the field transformer and the HTTP handlers.                   *)
(*                                                                         *)
(* Python strings are tuples of one-character strings, so that upper(),    *)
(* strip() and the substring test are computed and not assumed.  Python    *)
(* None is the tuple <<"None">>, whose single element is not a character.  *)
(* Field names and element names are used as keys only and are plain       *)
(* strings.  The vendor delivers string-valued or absent fields.           *)
(***************************************************************************)
EXTENDS Integers, Sequences, FiniteSets, TLC

(***************************************************************************)
(* Sizes.  The three program constants are scaled down (3000 -> 3,         *)
(* 100 -> 2); the model's bounds limit the number of calls and sessions.   *)
(***************************************************************************)
TargetCount == 3
DefaultLimit == 3
batch_size == 2
MaxCalls == 2
MaxSessions == 2
MaxRaises == 1
MaxSecs == 5
MaxPad == 1

(***************************************************************************)
(* Python values and string operations                                     *)
(***************************************************************************)
None == <<"None">>
EmptyStr == <<>>

Min(a, b) == IF a <= b THEN a ELSE b
Max(a, b) == IF a >= b THEN a ELSE b

\* Python truthiness of a string-or-None value
Truthy(v) == v /= None /\ v /= EmptyStr

LowerAlphabet == <<"a","b","c","d","e","f","g","h","i","j","k","l","m",
                   "n","o","p","q","r","s","t","u","v","w","x","y","z">>
UpperAlphabet == <<"A","B","C","D","E","F","G","H","I","J","K","L","M",
                   "N","O","P","Q","R","S","T","U","V","W","X","Y","Z">>

UpperChar(c) ==
    IF \E i \in DOMAIN LowerAlphabet : LowerAlphabet[i] = c
    THEN UpperAlphabet[CHOOSE i \in DOMAIN LowerAlphabet : LowerAlphabet[i] = c]
    ELSE c

\* str.upper()
Upper(s) == [i \in DOMAIN s |-> UpperChar(s[i])]

\* the Python test  sub in s
Contains(s, sub) ==
    \E i \in 0..(Len(s) - Len(sub)) : SubSeq(s, i + 1, i + Len(sub)) = sub

\* str.strip()
RECURSIVE LStrip(_)
LStrip(s) == IF s /= <<>> /\ Head(s) = " " THEN LStrip(Tail(s)) ELSE s
RECURSIVE RStrip(_)
RStrip(s) ==
    IF s /= <<>> /\ s[Len(s)] = " " THEN RStrip(SubSeq(s, 1, Len(s) - 1)) ELSE s
Strip(s) == RStrip(LStrip(s))

\* the Python slice s[:n], n any integer
SliceTo(s, n) ==
    IF n >= 0 THEN SubSeq(s, 1, Min(n, Len(s)))
    ELSE SubSeq(s, 1, Max(Len(s) + n, 0))

\* dict.get(key, default) on a dict modelled as a function
Get(d, key, default) == IF key \in DOMAIN d THEN d[key] ELSE default

(***************************************************************************)
(* A dict that remembers insertion order: a sequence of [key, val]         *)
(***************************************************************************)
DictKeys(d) == {d[i].key : i \in DOMAIN d}
DictSet(d, k, v) ==
    IF k \in DictKeys(d)
    THEN [i \in DOMAIN d |-> IF d[i].key = k THEN [key |-> k, val |-> v] ELSE d[i]]
    ELSE Append(d, [key |-> k, val |-> v])
DictGet(d, k) == d[CHOOSE i \in DOMAIN d : d[i].key = k].val
DictValues(d) == [i \in DOMAIN d |-> d[i].val]

(***************************************************************************)
(* Field Transformer                                                       *)
(***************************************************************************)
sPOSITIVE == <<"P","O","S","I","T","I","V","E">>
sNEGATIVE == <<"N","E","G","A","T","I","V","E">>
sSTABLE == <<"S","T","A","B","L","E">>
sDEVELOPING == <<"D","E","V","E","L","O","P","I","N","G">>
sPOS == <<"P","O","S">>
sNEG == <<"N","E","G">>
sSTA == <<"S","T","A">>
sDEV == <<"D","E","V">>
sUPGRADE == <<"U","P","G","R","A","D","E">>
sDOWNGRADE == <<"D","O","W","N","G","R","A","D","E">>

positive == <<"p","o","s","i","t","i","v","e">>
negative == <<"n","e","g","a","t","i","v","e">>
stable == <<"s","t","a","b","l","e">>
developing == <<"d","e","v","e","l","o","p","i","n","g">>

WatchPositive == <<"P","o","s","i","t","i","v","e">>
WatchNegative == <<"N","e","g","a","t","i","v","e">>
NotOnWatchlist ==
    <<"N","o","t"," ","o","n"," ","w","a","t","c","h","l","i","s","t">>

outlook_map ==
    (sPOSITIVE :> positive) @@ (sNEGATIVE :> negative) @@ (sSTABLE :> stable)
    @@ (sDEVELOPING :> developing) @@ (sPOS :> positive) @@ (sNEG :> negative)
    @@ (sSTA :> stable) @@ (sDEV :> developing)

\* a lookup without the upper-casing
parse_outlook_cased(outlook_str) ==
    IF ~Truthy(outlook_str) THEN stable
    ELSE Get(outlook_map, outlook_str, stable)

\* lines 419-433
parse_outlook(outlook_str) ==
    IF ~Truthy(outlook_str) THEN stable
    ELSE Get(outlook_map, Upper(outlook_str), stable)

\* a mapping that tests the negative words first
parse_watchlist_negative_first(watch_str) ==
    IF ~Truthy(watch_str) \/ watch_str = EmptyStr THEN NotOnWatchlist
    ELSE LET watch_upper == Upper(watch_str)
         IN  IF Contains(watch_upper, sNEGATIVE) \/ Contains(watch_upper, sDOWNGRADE)
             THEN WatchNegative
             ELSE IF Contains(watch_upper, sPOSITIVE)
                     \/ Contains(watch_upper, sUPGRADE)
                  THEN WatchPositive
                  ELSE NotOnWatchlist

\* lines 435-444
parse_watchlist(watch_str) ==
    IF ~Truthy(watch_str) \/ watch_str = EmptyStr THEN NotOnWatchlist
    ELSE LET watch_upper == Upper(watch_str)
         IN  IF Contains(watch_upper, sPOSITIVE) \/ Contains(watch_upper, sUPGRADE)
             THEN WatchPositive
             ELSE IF Contains(watch_upper, sNEGATIVE)
                     \/ Contains(watch_upper, sDOWNGRADE)
                  THEN WatchNegative
                  ELSE NotOnWatchlist

transform_bloomberg_data(bloomberg_data) ==
    [isin |-> Get(bloomberg_data, "ID_ISIN", EmptyStr),
     issuer |-> Get(bloomberg_data, "ISSUER",
                    Get(bloomberg_data, "ISSUER_BULK", EmptyStr)),
     country |-> Get(bloomberg_data, "COUNTRY_ISO", EmptyStr),
     moodys_rating |-> Get(bloomberg_data, "RTG_MOODY", EmptyStr),
     sp_rating |-> Get(bloomberg_data, "RTG_SP", EmptyStr),
     fitch_rating |-> Get(bloomberg_data, "RTG_FITCH", EmptyStr),
     moodys_rating_date |-> Get(bloomberg_data, "RTG_MOODY_RATING_DATE", EmptyStr),
     sp_rating_date |-> Get(bloomberg_data, "RTG_SP_RATING_DATE", EmptyStr),
     fitch_rating_date |-> Get(bloomberg_data, "RTG_FITCH_RATING_DATE", EmptyStr),
     moodys_outlook |-> parse_outlook(Get(bloomberg_data, "RTG_MOODY_OUTLOOK", None)),
     sp_outlook |-> parse_outlook(Get(bloomberg_data, "RTG_SP_OUTLOOK", None)),
     fitch_outlook |-> parse_outlook(Get(bloomberg_data, "RTG_FITCH_OUTLOOK", None)),
     moodys_outlook_date |-> Get(bloomberg_data, "RTG_MOODY_OUTLOOK_DT", EmptyStr),
     sp_outlook_date |-> Get(bloomberg_data, "RTG_SP_OUTLOOK_DT", EmptyStr),
     fitch_outlook_date |-> Get(bloomberg_data, "RTG_FITCH_OUTLOOK_DT", EmptyStr),
     moodys_watch |-> parse_watchlist(Get(bloomberg_data, "RTG_MOODY_REVIEW", None)),
     sp_watch |-> parse_watchlist(Get(bloomberg_data, "RTG_SP_CREDITWATCH", None)),
     fitch_watch |-> parse_watchlist(Get(bloomberg_data, "RTG_FITCH_WATCH", None)),
     sector |-> Get(bloomberg_data, "GICS_SECTOR_NAME", EmptyStr),
     industry |-> Get(bloomberg_data, "GICS_INDUSTRY_NAME", EmptyStr)]

OutlookAttrs == {"moodys_outlook", "sp_outlook", "fitch_outlook"}
WatchAttrs == {"moodys_watch", "sp_watch", "fitch_watch"}
CanonicalAttrs ==
    {"isin", "issuer", "country", "moodys_rating", "sp_rating", "fitch_rating",
     "moodys_rating_date", "sp_rating_date", "fitch_rating_date",
     "moodys_outlook", "sp_outlook", "fitch_outlook",
     "moodys_outlook_date", "sp_outlook_date", "fitch_outlook_date",
     "moodys_watch", "sp_watch", "fitch_watch", "sector", "industry"}

(***************************************************************************)
(* Names used by the screener and the handlers                             *)
(***************************************************************************)
indices ==
    <<<<"L","E","G","A","T","R","U","U"," ","I","n","d","e","x">>,
      <<"L","U","A","C","T","R","U","U"," ","I","n","d","e","x">>,
      <<"L","F","9","8","T","R","U","U"," ","I","n","d","e","x">>,
      <<"L","B","U","S","T","R","U","U"," ","I","n","d","e","x">>>>

member_fields ==
    <<"INDX_MEMBERS", "INDX_MWEIGHT", "INDX_MEMBERS_WEIGHTS", "MEMBERS_AND_WEIGHTS">>

sub_fields ==
    <<"Member Ticker and Exchange Code", "Member Ticker", "ISIN", "ID_ISIN",
      "Ticker", "Security Identifier">>

bonds_fields ==
    <<"ID_ISIN", "ISSUER", "ISSUER_BULK", "COUNTRY_ISO", "RTG_MOODY", "RTG_SP",
      "RTG_FITCH", "RTG_MOODY_RATING_DATE", "RTG_SP_RATING_DATE",
      "RTG_FITCH_RATING_DATE", "RTG_MOODY_OUTLOOK", "RTG_SP_OUTLOOK",
      "RTG_FITCH_OUTLOOK", "RTG_MOODY_OUTLOOK_DT", "RTG_SP_OUTLOOK_DT",
      "RTG_FITCH_OUTLOOK_DT", "RTG_MOODY_REVIEW", "RTG_SP_CREDITWATCH",
      "RTG_FITCH_WATCH", "GICS_SECTOR_NAME", "GICS_INDUSTRY_NAME">>

bond_fields ==
    <<"ID_ISIN", "ISSUER", "COUNTRY_ISO", "RTG_MOODY", "RTG_SP", "RTG_FITCH",
      "RTG_MOODY_OUTLOOK", "RTG_SP_OUTLOOK", "RTG_FITCH_OUTLOOK">>

sDAILY_CAPACITY_REACHED ==
    <<"D","A","I","L","Y","_","C","A","P","A","C","I","T","Y","_","R","E","A","C","H","E","D">>
sNOT_AUTHORIZED == <<"N","O","T","_","A","U","T","H","O","R","I","Z","E","D">>

LIMIT_REACHED == <<"L","I","M","I","T","_","R","E","A","C","H","E","D">>

(***************************************************************************)
(* The vendor: security identifiers, the data it holds for each, the       *)
(* messages and the event sequences it answers a request with.             *)
(***************************************************************************)
idA == <<"A">>
idB == <<"B">>
idC == <<"C">>
idD == <<"D">>
idE == <<"E">>
idPadA == <<"A", " ">>
idBlank == <<" ">>

\* fieldData the vendor holds: A is complete, B has only the bulk issuer,
\* D has no field at all.
FieldDataA ==
    ("ID_ISIN" :> idA) @@ ("ISSUER" :> <<"A","c","m","e">>)
    @@ ("ISSUER_BULK" :> <<"A","B">>) @@ ("COUNTRY_ISO" :> <<"U","S">>)
    @@ ("RTG_MOODY" :> <<"A","a","a">>)
    @@ ("RTG_MOODY_OUTLOOK" :> <<"P","o","s">>)
    @@ ("RTG_SP_OUTLOOK" :> sNEGATIVE)
    @@ ("RTG_MOODY_REVIEW" :> <<"U","p","g","r","a","d","e">>)
    @@ ("RTG_SP_CREDITWATCH" :> <<"d","o","w","n","g","r","a","d","e">>)
FieldDataB ==
    ("ID_ISIN" :> idB) @@ ("ISSUER_BULK" :> <<"B","k">>)
    @@ ("RTG_FITCH_OUTLOOK" :> <<"N","/","A">>)
FieldDataD == <<>>

\* one element of a securityData array
SecEntry(security, securityError, hasFieldData, fieldData) ==
    [security |-> security, securityError |-> securityError,
     hasFieldData |-> hasFieldData, fieldData |-> fieldData]

\* the vendor's answer for one security of a reference-data request:
\* C is unknown to the vendor (securityError), E comes back without a
\* fieldData element, every other unknown identifier is a securityError.
RefEntry(security) ==
    IF security = idA THEN SecEntry(security, FALSE, TRUE, FieldDataA)
    ELSE IF security = idB THEN SecEntry(security, FALSE, TRUE, FieldDataB)
    ELSE IF security = idD THEN SecEntry(security, FALSE, TRUE, FieldDataD)
    ELSE IF security = idE THEN SecEntry(security, FALSE, FALSE, <<>>)
    ELSE SecEntry(security, TRUE, FALSE, <<>>)

Msg(hasResponseError, subcategory, hasSecurityData, securityData) ==
    [hasResponseError |-> hasResponseError, subcategory |-> subcategory,
     hasSecurityData |-> hasSecurityData, securityData |-> securityData]

QuotaMsg == Msg(TRUE, sDAILY_CAPACITY_REACHED, FALSE, <<>>)
OtherErrorMsg == Msg(TRUE, sNOT_AUTHORIZED, FALSE, <<>>)
NoDataMsg == Msg(FALSE, <<>>, FALSE, <<>>)
DataMsg(securityData) == Msg(FALSE, <<>>, TRUE, securityData)

Event(type, rid, msgs) == [type |-> type, rid |-> rid, msgs |-> msgs]

\* a test that no event passes
IsNeverFinalResponse(event) == FALSE

\* a test that takes a partial response for the final one
IsPartialOrFinalResponse(event) == event.type \in {"RESPONSE", "PARTIAL_RESPONSE"}

\* lines 181 and 336: the test before the drain loop's break
IsFinalResponse(event) == event.type = "RESPONSE"

\* member entries of a bulk member field
mA == "Member Ticker and Exchange Code" :> idA
mB == "Member Ticker" :> idB
mC == "ID_ISIN" :> idC
mE == "Ticker" :> idE
mAD == ("Member Ticker and Exchange Code" :> idA) @@ ("ISIN" :> idD)
mEmptyPad == ("Member Ticker" :> EmptyStr) @@ ("Security Identifier" :> idPadA)
mBlank == "Ticker" :> idBlank
mEmpty == "ISIN" :> EmptyStr

\* the event sequences the vendor may answer a membership request with
MemberScripts(ix, rid) ==
    { <<Event("RESPONSE", rid,
              <<DataMsg(<<SecEntry(ix, FALSE, TRUE, "INDX_MEMBERS" :> <<mA, mB>>)>>)>>)>>,
      <<Event("PARTIAL_RESPONSE", rid,
              <<DataMsg(<<SecEntry(ix, FALSE, TRUE, "INDX_MEMBERS" :> <<mA>>)>>)>>),
        Event("RESPONSE", rid,
              <<DataMsg(<<SecEntry(ix, FALSE, TRUE,
                                   ("INDX_MEMBERS" :> <<mAD>>)
                                   @@ ("INDX_MWEIGHT" :> <<mAD, mE>>))>>)>>)>>,
      <<Event("RESPONSE", rid,
              <<DataMsg(<<SecEntry(ix, FALSE, TRUE,
                                   "MEMBERS_AND_WEIGHTS"
                                       :> <<mEmptyPad, mB, mC, mBlank, mA>>)>>)>>)>>,
      <<Event("RESPONSE", rid, <<QuotaMsg>>)>>,
      <<Event("RESPONSE", rid,
              <<OtherErrorMsg, NoDataMsg,
                DataMsg(<<SecEntry(ix, TRUE, FALSE, <<>>),
                          SecEntry(ix, FALSE, FALSE, <<>>),
                          SecEntry(ix, FALSE, TRUE,
                                   "INDX_MEMBERS_WEIGHTS" :> <<mEmpty>>)>>)>>)>> }

\* the event sequences the vendor may answer a reference-data request
\* for the securities `carried` with
RefScripts(carried, rid) ==
    LET entries == [k \in DOMAIN carried |-> RefEntry(carried[k])]
    IN  { <<Event("RESPONSE", rid, <<DataMsg(entries)>>)>>,
          <<Event("RESPONSE", rid, <<QuotaMsg>>)>> }
        \cup IF Len(carried) >= 1
             THEN { <<Event("PARTIAL_RESPONSE", rid, <<DataMsg(SubSeq(entries, 1, 1))>>),
                      Event("RESPONSE", rid,
                            <<DataMsg(SubSeq(entries, 2, Len(entries)))>>)>> }
             ELSE {}

\* the securities a script answers without a securityError
RECURSIVE Flatten(_)
Flatten(ss) == IF ss = <<>> THEN <<>> ELSE Head(ss) \o Flatten(Tail(ss))
ScriptEntries(script) ==
    Flatten([i \in DOMAIN script |->
                Flatten([j \in DOMAIN script[i].msgs |->
                            script[i].msgs[j].securityData])])
AnsweredBy(script) ==
    LET es == ScriptEntries(script)
    IN  {es[k].security : k \in {j \in DOMAIN es : ~es[j].securityError}}
ReportsQuota(script) ==
    \E i \in DOMAIN script : \E j \in DOMAIN script[i].msgs :
        /\ script[i].msgs[j].hasResponseError
        /\ Contains(script[i].msgs[j].subcategory, sDAILY_CAPACITY_REACHED)

(***************************************************************************)
(* State                                                                   *)
(***************************************************************************)
VARIABLES
    session,         \* bloomberg.session: 0 is None, n > 0 the n-th Session object
    refDataService,  \* bloomberg.refDataService: 0 is None, n the service of session n
    sessions,        \* every Session object constructed so far: "created" or "started"
    stream,          \* events of the held session that nextEvent has not returned yet
    pc,              \* where the single-threaded server is
    handler,         \* the endpoint being served
    served,          \* number of data requests accepted so far
    limit,           \* get_bonds: the parsed limit
    idx,             \* screen_usd_bonds: position in indices (1-based)
    isins,           \* screen_usd_bonds: the running identifier list
    screened,        \* get_bonds: the value screen_usd_bonds returned
    securities,      \* fetch_reference_data: its securities argument
    fields,          \* fetch_reference_data: its fields argument
    isin,            \* get_bond_by_isin: the path parameter
    bi,              \* fetch_reference_data: the batch loop's offset i
    all_results,     \* fetch_reference_data: the mapping under construction
    lastEvent,       \* type of the event the last nextEvent returned
    sent,            \* the requests sent while serving the current call
    excSeen,         \* an exception was caught while serving the current call
    raises,          \* exceptions the SDK raised of its own accord in the current call
    response,        \* the last HTTP response
    arg,             \* transform_bloomberg_data's helpers: the argument of a call
    ret,             \* ... and the value the call returned
    applied          \* ... and the helper that was called

vars ==
    <<session, refDataService, sessions, stream, pc, handler, served,
      limit, idx, isins, screened, securities, fields, isin, bi, all_results,
      lastEvent, sent, excSeen, raises, response, arg, ret, applied>>

connVars == <<session, refDataService, sessions>>
screenVars == <<limit, idx, isins, screened>>
fetchVars == <<securities, fields, isin, bi, all_results>>
helperVars == <<arg, ret, applied>>

Range(s) == {s[i] : i \in DOMAIN s}

(***************************************************************************)
(* HTTP responses                                                          *)
(***************************************************************************)
Response(endpoint, status, mode, error, bonds, count, flag) ==
    [endpoint |-> endpoint, status |-> status, mode |-> mode, error |-> error,
     bonds |-> bonds, count |-> count, flag |-> flag]

NoResponse == Response("none", 0, "", "", <<>>, 0, FALSE)

\* the failure policy of the other variant: a demo payload
DemoPayload(status, error) == Response("bonds", status, "demo", error, <<>>, 0, FALSE)

\* {error, bonds: [], count: 0, mode: "error"} of GET /api/bonds
ErrorPayload(status, error) == Response("bonds", status, "error", error, <<>>, 0, FALSE)

(***************************************************************************)
(* int() of the limit query parameter: an optional sign and digits         *)
(***************************************************************************)
Digits == <<"0","1","2","3","4","5","6","7","8","9">>
IsDigit(c) == \E i \in DOMAIN Digits : Digits[i] = c
DigitValue(c) == (CHOOSE i \in DOMAIN Digits : Digits[i] = c) - 1
AllDigits(s) == s /= <<>> /\ \A i \in DOMAIN s : IsDigit(s[i])
IsInt(s) ==
    /\ s /= <<>>
    /\ IF Head(s) \in {"-", "+"} THEN AllDigits(Tail(s)) ELSE AllDigits(s)
NatOf(s) ==
    LET acc[k \in 0..Len(s)] ==
            IF k = 0 THEN 0 ELSE 10 * acc[k - 1] + DigitValue(s[k])
    IN  acc[Len(s)]
IntOf(s) ==
    IF Head(s) = "-" THEN 0 - NatOf(Tail(s))
    ELSE IF Head(s) = "+" THEN NatOf(Tail(s)) ELSE NatOf(s)

\* the limit query parameter: absent, or its text
LimitArgs == {None, <<"a","b","c">>, <<"-","1">>, <<"0">>, <<"2">>}
IsinArgs == {idA, idPadA, idC}

(***************************************************************************)
(* Vendor Session Adapter                                                  *)
(***************************************************************************)
ConnectOutcomes == {"ctor_raises", "start_fails", "open_fails", "ok"}

SessionStatusEvent == Event("SESSION_STATUS", 0, <<>>)

\* BloombergConnection.connect(); `outcome` is what the vendor SDK does
BloombergConnect(outcome) ==
    IF outcome = "ctor_raises"
    THEN UNCHANGED <<connVars, stream>>
    ELSE /\ sessions' = Append(sessions,
                               IF outcome = "start_fails" THEN "created" ELSE "started")
         /\ session' = Len(sessions) + 1
         /\ stream' = IF outcome = "start_fails" THEN <<>> ELSE <<SessionStatusEvent>>
         /\ refDataService' = IF outcome = "ok" THEN Len(sessions) + 1 ELSE refDataService

\* a connection test that always passes
SessionAlwaysSet == TRUE

\* lines 511 and 629: the truth value of bloomberg.session
SessionSet == session /= 0

\* a request can be created and sent: createRequest needs a service object,
\* sendRequest a started session
CanSend ==
    /\ refDataService /= 0
    /\ session /= 0
    /\ sessions[session] = "started"

(***************************************************************************)
(* Index Screener: the processing of one event                             *)
(***************************************************************************)
\* lines 174-179: the sub-field loop of one member entry, from position k
RECURSIVE ScanSubFields(_, _, _)
ScanSubFields(list, member_entry, k) ==
    IF k > Len(sub_fields) THEN list
    ELSE LET sub == sub_fields[k]
         IN  IF /\ sub \in DOMAIN member_entry
                /\ Truthy(member_entry[sub])
                /\ member_entry[sub] \notin Range(list)
             THEN Append(list, member_entry[sub])
             ELSE ScanSubFields(list, member_entry, k + 1)

\* a sub-field loop that appends without the membership test
RECURSIVE ScanSubFieldsNoDedup(_, _, _)
ScanSubFieldsNoDedup(list, member_entry, k) ==
    IF k > Len(sub_fields) THEN list
    ELSE LET sub == sub_fields[k]
         IN  IF sub \in DOMAIN member_entry /\ Truthy(member_entry[sub])
             THEN Append(list, member_entry[sub])
             ELSE ScanSubFieldsNoDedup(list, member_entry, k + 1)

ScreenMemberEntryNoDedup(list, member_entry) ==
    ScanSubFieldsNoDedup(list, member_entry, 1)

ScreenMemberEntry(list, member_entry) == ScanSubFields(list, member_entry, 1)

\* lines 155-179: one member field of one security
ScreenField(list, field_data, field) ==
    IF field \notin DOMAIN field_data THEN list
    ELSE LET members_element == field_data[field]
             acc[j \in 0..Len(members_element)] ==
                 IF j = 0 THEN list
                 ELSE ScreenMemberEntry(acc[j - 1], members_element[j])
         IN  acc[Len(members_element)]

\* lines 137-179: one element of securityData
ScreenSecurity(list, sec_data) ==
    IF sec_data.securityError THEN list
    ELSE IF ~sec_data.hasFieldData THEN list
    ELSE LET acc[k \in 0..Len(member_fields)] ==
                 IF k = 0 THEN list
                 ELSE ScreenField(acc[k - 1], sec_data.fieldData, member_fields[k])
         IN  acc[Len(member_fields)]

\* lines 136-179: the securityData array of one message
ScreenSecurities(list, sec_data_array) ==
    LET acc[i \in 0..Len(sec_data_array)] ==
            IF i = 0 THEN list ELSE ScreenSecurity(acc[i - 1], sec_data_array[i])
    IN  acc[Len(sec_data_array)]

\* a message loop that treats the quota error as any other response error
ScreenMessageNoQuota(st, msg) ==
    IF st.limit THEN st
    ELSE IF msg.hasResponseError THEN st
    ELSE IF ~msg.hasSecurityData THEN st
    ELSE [st EXCEPT !.isins = ScreenSecurities(st.isins, msg.securityData)]

\* lines 115-179: one message; st.limit is set by  return "LIMIT_REACHED"
ScreenMessage(st, msg) ==
    IF st.limit THEN st
    ELSE IF msg.hasResponseError
    THEN IF Contains(msg.subcategory, sDAILY_CAPACITY_REACHED)
         THEN [st EXCEPT !.limit = TRUE]
         ELSE st
    ELSE IF ~msg.hasSecurityData THEN st
    ELSE [st EXCEPT !.isins = ScreenSecurities(st.isins, msg.securityData)]

\* lines 112-179: one event
ScreenEventResult(list, event) ==
    IF event.type \in {"RESPONSE", "PARTIAL_RESPONSE"}
    THEN LET acc[m \in 0..Len(event.msgs)] ==
                 IF m = 0 THEN [isins |-> list, limit |-> FALSE]
                 ELSE ScreenMessage(acc[m - 1], event.msgs[m])
         IN  acc[Len(event.msgs)]
    ELSE [isins |-> list, limit |-> FALSE]

\* a return without the final truncation
ScreenResultNoCap(list) == list

\* lines 190-195: the value returned after the index loop
ScreenResult(list) == IF Len(list) = 0 THEN <<>> ELSE SliceTo(list, TargetCount)

(***************************************************************************)
(* Batched Fetcher: the processing of one event                            *)
(***************************************************************************)
\* lines 319-332: the record of one security
SecData(fieldData, flds) ==
    [f \in Range(flds) |-> IF f \in DOMAIN fieldData THEN fieldData[f] ELSE None]

\* lines 305-334: one element of securityData; st.raised is set when
\* getElement("fieldData") raises
FetchSecurity(st, securityData, flds) ==
    IF st.raised THEN st
    ELSE IF securityData.securityError THEN st
    ELSE IF ~securityData.hasFieldData THEN [st EXCEPT !.raised = TRUE]
    ELSE [st EXCEPT !.results =
              DictSet(st.results, securityData.security,
                      SecData(securityData.fieldData, flds))]

\* lines 298-334: one message
FetchMessage(st, msg, flds) ==
    IF st.raised THEN st
    ELSE IF ~msg.hasSecurityData THEN st
    ELSE LET securityDataArray == msg.securityData
             acc[i \in 0..Len(securityDataArray)] ==
                 IF i = 0 THEN st
                 ELSE FetchSecurity(acc[i - 1], securityDataArray[i], flds)
         IN  acc[Len(securityDataArray)]

\* lines 295-334: one event
FetchEventResult(results, event, flds) ==
    IF event.type \in {"RESPONSE", "PARTIAL_RESPONSE"}
    THEN LET acc[m \in 0..Len(event.msgs)] ==
                 IF m = 0 THEN [results |-> results, raised |-> FALSE]
                 ELSE FetchMessage(acc[m - 1], event.msgs[m], flds)
         IN  acc[Len(event.msgs)]
    ELSE [results |-> results, raised |-> FALSE]

\* lines 281-283: the securities a batch's request carries
Carried(batch) ==
    LET acc[k \in 0..Len(batch)] ==
            IF k = 0 THEN <<>>
            ELSE IF Truthy(batch[k]) /\ Truthy(Strip(batch[k]))
                 THEN Append(acc[k - 1], Strip(batch[k]))
                 ELSE acc[k - 1]
    IN  acc[Len(batch)]

\* a slice that runs one element into the next batch
BatchOverlap(secs, i) == SubSeq(secs, i + 1, Min(i + batch_size + 1, Len(secs)))

\* line 274: securities[i:i + batch_size]
Batch(secs, i) == SubSeq(secs, i + 1, Min(i + batch_size, Len(secs)))

(***************************************************************************)
(* get_bonds after fetch_reference_data has returned (lines 572-613), and  *)
(* get_bond_by_isin after it (lines 640-643)                               *)
(***************************************************************************)
\* no issuer filter
ValidBondsNoFilter(bonds) == bonds

\* line 589
ValidBonds(bonds) == SelectSeq(bonds, LAMBDA b : Truthy(b.issuer) /\ b.issuer /= EmptyStr)

BondsResponse(bloomberg_data) ==
    IF bloomberg_data = <<>> THEN ErrorPayload(503, "no_data")
    ELSE LET vals == DictValues(bloomberg_data)
             bonds == [i \in DOMAIN vals |-> transform_bloomberg_data(vals[i])]
             valid_bonds == ValidBonds(bonds)
         IN  IF valid_bonds = <<>> THEN ErrorPayload(503, "empty_issuers")
             ELSE Response("bonds", 200, "live", "", valid_bonds, Len(valid_bonds), FALSE)

\* lines 640-643
BondResponse(data, id) ==
    IF id \in DictKeys(data)
    THEN Response("bond", 200, "", "", <<transform_bloomberg_data(DictGet(data, id))>>, 1, FALSE)
    ELSE Response("bond", 404, "", "not_found", <<>>, 0, FALSE)

(***************************************************************************)
(* Initial state: the module has been imported, nothing is connected       *)
(***************************************************************************)
Init ==
    /\ session = 0
    /\ refDataService = 0
    /\ sessions = <<>>
    /\ stream = <<>>
    /\ pc = "boot"
    /\ handler = "none"
    /\ served = 0
    /\ limit = 0
    /\ idx = 0
    /\ isins = <<>>
    /\ screened = <<>>
    /\ securities = <<>>
    /\ fields = <<>>
    /\ isin = <<>>
    /\ bi = 0
    /\ all_results = <<>>
    /\ lastEvent = "none"
    /\ sent = <<>>
    /\ excSeen = FALSE
    /\ raises = 0
    /\ response = NoResponse
    /\ arg = None
    /\ ret = None
    /\ applied = "none"

SentRecord(kind, pos, carried, script) ==
    [rid |-> Len(sent) + 1, kind |-> kind, pos |-> pos, carried |-> carried,
     answered |-> AnsweredBy(script), quota |-> ReportsQuota(script),
     raised |-> FALSE]

\* events that answer requests of earlier calls carry rid 0
Stale(events) == [i \in DOMAIN events |-> [events[i] EXCEPT !.rid = 0]]

\* the SDK may raise of its own accord, within the budget of the call
MayRaise == raises < MaxRaises

MarkRaised(log) ==
    IF log = <<>> THEN log ELSE [log EXCEPT ![Len(log)].raised = TRUE]

(***************************************************************************)
(* Process start and the two endpoints that do no vendor I/O               *)
(***************************************************************************)
\* lines 650-660: the start-up connect, whose failure is only logged
Main(outcome) ==
    /\ UNCHANGED helperVars
    /\ pc = "boot"
    /\ BloombergConnect(outcome)
    /\ pc' = "idle"
    /\ UNCHANGED <<handler, served, screenVars, fetchVars, lastEvent, sent,
                   excSeen, raises, response>>

\* the module served by a WSGI container: no start-up connect
Imported ==
    /\ UNCHANGED helperVars
    /\ pc = "boot"
    /\ pc' = "idle"
    /\ UNCHANGED <<connVars, stream, handler, served, screenVars, fetchVars,
                   lastEvent, sent, excSeen, raises, response>>

\* GET /api/health
health_check ==
    /\ UNCHANGED helperVars
    /\ pc = "idle"
    /\ response' = Response("health", 200, "", "", <<>>, 0, session /= 0)
    /\ handler' = "health"
    /\ UNCHANGED <<connVars, stream, pc, served, screenVars, fetchVars,
                   lastEvent, sent, excSeen, raises>>

\* POST /api/connect
connect(outcome) ==
    /\ UNCHANGED helperVars
    /\ pc = "idle"
    /\ Len(sessions) < MaxSessions
    /\ BloombergConnect(outcome)
    /\ response' = IF outcome = "ok"
                   THEN Response("connect", 200, "", "", <<>>, 0, TRUE)
                   ELSE Response("connect", 500, "", outcome, <<>>, 0, FALSE)
    /\ handler' = "connect"
    /\ UNCHANGED <<pc, served, screenVars, fetchVars, lastEvent, sent, excSeen, raises>>

(***************************************************************************)
(* GET /api/bonds                                                          *)
(***************************************************************************)
\* lines 507-521: up to the call of screen_usd_bonds
get_bonds(limitArg) ==
    /\ UNCHANGED helperVars
    /\ pc = "idle"
    /\ served < MaxCalls
    /\ served' = served + 1
    /\ handler' = "bonds"
    /\ sent' = <<>>
    /\ lastEvent' = "none"
    /\ isins' = <<>>
    /\ screened' = <<>>
    /\ all_results' = <<>>
    /\ securities' = <<>>
    /\ fields' = bonds_fields
    /\ bi' = 0
    /\ raises' = 0
    /\ stream' = Stale(stream)
    /\ UNCHANGED <<connVars, isin>>
    /\ IF limitArg /= None /\ ~IsInt(limitArg)
       THEN /\ response' = ErrorPayload(500, "exception")
            /\ excSeen' = TRUE
            /\ UNCHANGED <<pc, limit, idx>>
       ELSE /\ limit' = IF limitArg = None THEN DefaultLimit ELSE IntOf(limitArg)
            /\ excSeen' = FALSE
            /\ IF ~SessionSet
               THEN /\ response' = ErrorPayload(503, "not_connected")
                    /\ UNCHANGED <<pc, idx>>
               ELSE /\ response' = NoResponse
                    /\ idx' = 1
                    /\ pc' = "screen_loop"

ScreenMore == idx <= Len(indices) /\ Len(isins) < TargetCount

\* lines 98-107 raise: createRequest on None, or the SDK raises
ScreenSendRaises ==
    /\ UNCHANGED helperVars
    /\ pc = "screen_loop"
    /\ ScreenMore
    /\ ~CanSend \/ MayRaise
    /\ raises' = IF CanSend THEN raises + 1 ELSE raises
    /\ idx' = idx + 1
    /\ excSeen' = TRUE
    /\ UNCHANGED <<connVars, stream, pc, handler, served, limit, isins,
                   screened, fetchVars, lastEvent, sent, response>>

\* lines 98-107: the membership request of indices[idx] is sent
ScreenSend ==
    /\ UNCHANGED helperVars
    /\ pc = "screen_loop"
    /\ ScreenMore
    /\ CanSend
    /\ \E script \in MemberScripts(indices[idx], Len(sent) + 1) :
          /\ stream' = stream \o script
          /\ sent' = Append(sent, SentRecord("members", idx, <<indices[idx]>>, script))
    /\ lastEvent' = "none"
    /\ pc' = "screen_drain"
    /\ UNCHANGED <<connVars, handler, served, screenVars, fetchVars, excSeen, raises, response>>

\* line 110: nextEvent(2000) returns a TIMEOUT event
ScreenTimeout ==
    /\ UNCHANGED helperVars
    /\ pc = "screen_drain"
    /\ lastEvent' = "TIMEOUT"
    /\ UNCHANGED <<connVars, stream, pc, handler, served, screenVars,
                   fetchVars, sent, excSeen, raises, response>>

\* line 110 raises: the index is abandoned (lines 186-188)
ScreenNextEventRaises ==
    /\ UNCHANGED helperVars
    /\ pc = "screen_drain"
    /\ MayRaise
    /\ raises' = raises + 1
    /\ idx' = idx + 1
    /\ pc' = "screen_loop"
    /\ excSeen' = TRUE
    /\ sent' = MarkRaised(sent)
    /\ UNCHANGED <<connVars, stream, handler, served, limit, isins, screened,
                   fetchVars, lastEvent, response>>

\* lines 110-182: nextEvent returns the next event of the stream
ScreenEvent ==
    /\ UNCHANGED helperVars
    /\ pc = "screen_drain"
    /\ stream /= <<>>
    /\ LET event == Head(stream)
           st == ScreenEventResult(isins, event)
       IN  /\ stream' = Tail(stream)
           /\ lastEvent' = event.type
           /\ isins' = st.isins
           /\ IF st.limit
              THEN /\ screened' = LIMIT_REACHED
                   /\ response' = ErrorPayload(429, "limit_reached")
                   /\ pc' = "idle"
                   /\ UNCHANGED idx
              ELSE /\ UNCHANGED <<screened, response>>
                   /\ IF IsFinalResponse(event)
                      THEN idx' = idx + 1 /\ pc' = "screen_loop"
                      ELSE UNCHANGED <<idx, pc>>
    /\ UNCHANGED <<connVars, handler, served, limit, fetchVars, sent, excSeen, raises>>

\* lines 92-94 and 190-195, then get_bonds lines 523-570
ScreenReturn ==
    /\ UNCHANGED helperVars
    /\ pc = "screen_loop"
    /\ ~ScreenMore
    /\ LET result == ScreenResult(isins)
       IN  /\ screened' = result
           /\ IF result = <<>>
              THEN /\ response' = ErrorPayload(503, "no_screening_results")
                   /\ pc' = "idle"
                   /\ UNCHANGED securities
              ELSE /\ securities' = SliceTo(result, limit)
                   /\ pc' = "fetch_loop"
                   /\ UNCHANGED response
    /\ UNCHANGED <<connVars, stream, handler, served, limit, idx, isins,
                   fields, isin, bi, all_results, lastEvent, sent, excSeen, raises>>

(***************************************************************************)
(* GET /api/bonds/<isin>                                                   *)
(***************************************************************************)
\* lines 628-638: up to the call of fetch_reference_data
get_bond_by_isin(id) ==
    /\ UNCHANGED helperVars
    /\ pc = "idle"
    /\ served < MaxCalls
    /\ served' = served + 1
    /\ handler' = "bond"
    /\ isin' = id
    /\ sent' = <<>>
    /\ lastEvent' = "none"
    /\ excSeen' = FALSE
    /\ all_results' = <<>>
    /\ bi' = 0
    /\ fields' = bond_fields
    /\ raises' = 0
    /\ stream' = Stale(stream)
    /\ UNCHANGED <<connVars, screenVars>>
    /\ IF ~SessionSet
       THEN /\ response' = Response("bond", 503, "", "not_connected", <<>>, 0, FALSE)
            /\ UNCHANGED <<pc, securities>>
       ELSE /\ response' = NoResponse
            /\ securities' = <<id>>
            /\ pc' = "fetch_loop"

(***************************************************************************)
(* fetch_reference_data                                                    *)
(***************************************************************************)
FetchMore == bi < Len(securities)

\* an except clause that gives up the remaining batches
AbortBatches(i) == Max(Len(securities), i + batch_size)

\* lines 339-341: the except clause's continue takes the loop to the next
\* value of range(0, len(securities), batch_size)
AbandonBatch(i) == i + batch_size

\* lines 277-290 raise: the batch is abandoned (lines 339-341)
FetchSendRaises ==
    /\ UNCHANGED helperVars
    /\ pc = "fetch_loop"
    /\ FetchMore
    /\ ~CanSend \/ MayRaise
    /\ raises' = IF CanSend THEN raises + 1 ELSE raises
    /\ bi' = AbandonBatch(bi)
    /\ excSeen' = TRUE
    /\ UNCHANGED <<connVars, stream, pc, handler, served, screenVars,
                   securities, fields, isin, all_results, lastEvent, sent, response>>

\* lines 274-290: the request of the batch at offset bi is sent
FetchSend ==
    /\ UNCHANGED helperVars
    /\ pc = "fetch_loop"
    /\ FetchMore
    /\ CanSend
    /\ LET carried == Carried(Batch(securities, bi))
       IN  \E script \in RefScripts(carried, Len(sent) + 1) :
              /\ stream' = stream \o script
              /\ sent' = Append(sent, SentRecord("refdata", bi, carried, script))
    /\ lastEvent' = "none"
    /\ pc' = "fetch_drain"
    /\ UNCHANGED <<connVars, handler, served, screenVars, fetchVars, excSeen, raises, response>>

\* line 293: nextEvent(2000) returns a TIMEOUT event
FetchTimeout ==
    /\ UNCHANGED helperVars
    /\ pc = "fetch_drain"
    /\ lastEvent' = "TIMEOUT"
    /\ UNCHANGED <<connVars, stream, pc, handler, served, screenVars,
                   fetchVars, sent, excSeen, raises, response>>

\* line 293 raises: the batch is abandoned (lines 339-341)
FetchNextEventRaises ==
    /\ UNCHANGED helperVars
    /\ pc = "fetch_drain"
    /\ MayRaise
    /\ raises' = raises + 1
    /\ bi' = AbandonBatch(bi)
    /\ pc' = "fetch_loop"
    /\ excSeen' = TRUE
    /\ sent' = MarkRaised(sent)
    /\ UNCHANGED <<connVars, stream, handler, served, screenVars, securities,
                   fields, isin, all_results, lastEvent, response>>

\* lines 293-341: nextEvent returns the next event of the stream
FetchEvent ==
    /\ UNCHANGED helperVars
    /\ pc = "fetch_drain"
    /\ stream /= <<>>
    /\ LET event == Head(stream)
           st == FetchEventResult(all_results, event, fields)
       IN  /\ stream' = Tail(stream)
           /\ lastEvent' = event.type
           /\ all_results' = st.results
           /\ IF st.raised
              THEN /\ bi' = AbandonBatch(bi)
                   /\ pc' = "fetch_loop"
                   /\ excSeen' = TRUE
                   /\ sent' = MarkRaised(sent)
              ELSE /\ UNCHANGED <<excSeen, sent>>
                   /\ IF IsFinalResponse(event)
                      THEN bi' = bi + batch_size /\ pc' = "fetch_loop"
                      ELSE UNCHANGED <<bi, pc>>
    /\ UNCHANGED <<connVars, handler, served, screenVars, securities, fields,
                   isin, raises, response>>

\* lines 267-268 and 343-344: the mapping is returned, and the handler
\* that called builds its response
FetchReturn ==
    /\ UNCHANGED helperVars
    /\ pc = "fetch_loop"
    /\ ~FetchMore
    /\ IF handler = "bonds"
       THEN response' = BondsResponse(all_results) /\ pc' = "idle"
       ELSE IF handler = "bond"
       THEN response' = BondResponse(all_results, isin) /\ pc' = "idle"
       ELSE UNCHANGED response /\ pc' = "returned"
    /\ UNCHANGED <<connVars, stream, handler, served, screenVars, fetchVars,
                   lastEvent, sent, excSeen, raises>>

Next ==
    \/ \E outcome \in ConnectOutcomes : Main(outcome)
    \/ Imported
    \/ health_check
    \/ \E outcome \in ConnectOutcomes : connect(outcome)
    \/ \E limitArg \in LimitArgs : get_bonds(limitArg)
    \/ ScreenSendRaises
    \/ ScreenSend
    \/ ScreenTimeout
    \/ ScreenNextEventRaises
    \/ ScreenEvent
    \/ ScreenReturn
    \/ \E id \in IsinArgs : get_bond_by_isin(id)
    \/ FetchSendRaises
    \/ FetchSend
    \/ FetchTimeout
    \/ FetchNextEventRaises
    \/ FetchEvent
    \/ FetchReturn

Spec == Init /\ [][Next]_vars

\* The service with a vendor that delivers: an event that is in the stream
\* is returned by nextEvent after finitely many TIMEOUT events.  The other
\* conditions say that the interpreter runs the code between two calls of
\* nextEvent.
VendorDelivers == WF_vars(ScreenEvent \/ FetchEvent)

CodeRuns ==
    WF_vars(ScreenSend \/ ScreenSendRaises \/ ScreenReturn
            \/ FetchSend \/ FetchSendRaises \/ FetchReturn)

\* The data endpoints of a connected service, followed through the last
\* call that MaxCalls admits; an earlier call may have left the final
\* RESPONSE of an abandoned request in the stream.
LiveStreams ==
    {<<SessionStatusEvent>>,
     <<Event("RESPONSE", 0, <<DataMsg(<<RefEntry(idA)>>)>>)>>}

InitLive ==
    /\ session = 1
    /\ refDataService = 1
    /\ sessions = <<"started">>
    /\ stream \in LiveStreams
    /\ pc = "idle"
    /\ handler = "none"
    /\ served = MaxCalls - 1
    /\ limit = 0
    /\ idx = 0
    /\ isins = <<>>
    /\ screened = <<>>
    /\ securities = <<>>
    /\ fields = <<>>
    /\ isin = <<>>
    /\ bi = 0
    /\ all_results = <<>>
    /\ lastEvent = "none"
    /\ sent = <<>>
    /\ excSeen = FALSE
    /\ raises = 0
    /\ response = NoResponse
    /\ arg = None
    /\ ret = None
    /\ applied = "none"

\* the limit is absent, or it is rejected
LiveLimitArgs == {None, <<"a","b","c">>}

NextLive ==
    \/ \E limitArg \in LiveLimitArgs : get_bonds(limitArg)
    \/ ScreenSendRaises
    \/ ScreenSend
    \/ ScreenTimeout
    \/ ScreenNextEventRaises
    \/ ScreenEvent
    \/ ScreenReturn
    \/ \E id \in IsinArgs : get_bond_by_isin(id)
    \/ FetchSendRaises
    \/ FetchSend
    \/ FetchTimeout
    \/ FetchNextEventRaises
    \/ FetchEvent
    \/ FetchReturn

SpecLive == InitLive /\ [][NextLive]_vars /\ VendorDelivers /\ CodeRuns

(***************************************************************************)
(* fetch_reference_data called on its own: a connected session and any     *)
(* securities argument of at most MaxSecs identifiers                      *)
(***************************************************************************)
FetchIds == {idA, idPadA, idBlank, idE}

RECURSIVE SeqsUpTo(_, _)
SeqsUpTo(S, n) ==
    IF n = 0 THEN {<<>>}
    ELSE LET shorter == SeqsUpTo(S, n - 1)
         IN  shorter \cup {Append(q, x) : q \in {t \in shorter : Len(t) = n - 1}, x \in S}

InitFetch ==
    /\ session = 1
    /\ refDataService = 1
    /\ sessions = <<"started">>
    /\ stream = <<SessionStatusEvent>>
    /\ pc = "fetch_loop"
    /\ handler = "call"
    /\ served = 0
    /\ limit = 0
    /\ idx = 0
    /\ isins = <<>>
    /\ screened = <<>>
    /\ securities \in SeqsUpTo(FetchIds, MaxSecs)
    /\ fields = bonds_fields
    /\ isin = <<>>
    /\ bi = 0
    /\ all_results = <<>>
    /\ lastEvent = "none"
    /\ sent = <<>>
    /\ excSeen = FALSE
    /\ raises = 0
    /\ response = NoResponse
    /\ arg = None
    /\ ret = None
    /\ applied = "none"

NextFetch ==
    \/ FetchSendRaises
    \/ FetchSend
    \/ FetchTimeout
    \/ FetchNextEventRaises
    \/ FetchEvent
    \/ FetchReturn

SpecFetch == InitFetch /\ [][NextFetch]_vars

(***************************************************************************)
(* parse_outlook and parse_watchlist called on their own, with an argument *)
(* drawn from every casing of the words they know, words embedded in       *)
(* other text, and values they do not know                                 *)
(***************************************************************************)
LowerChar(c) ==
    IF \E i \in DOMAIN UpperAlphabet : UpperAlphabet[i] = c
    THEN LowerAlphabet[CHOOSE i \in DOMAIN UpperAlphabet : UpperAlphabet[i] = c]
    ELSE c

RECURSIVE Casings(_)
Casings(s) ==
    IF s = <<>> THEN {<<>>}
    ELSE {<<c>> \o t : c \in {Head(s), LowerChar(Head(s))}, t \in Casings(Tail(s))}

RECURSIVE Pads(_)
Pads(n) ==
    IF n = 0 THEN {<<>>}
    ELSE Pads(n - 1) \cup {Append(q, "-") : q \in Pads(n - 1)}

OutlookWords == {sPOSITIVE, sNEGATIVE, sSTABLE, sDEVELOPING, sPOS, sNEG, sSTA, sDEV}
WatchWords == {sPOSITIVE, sUPGRADE, sNEGATIVE, sDOWNGRADE}

OtherArgs ==
    {None, EmptyStr, <<"N","/","A">>, <<"W","R">>, <<"P","O","S","I">>,
     <<"S","T","A","B","L","E"," ">>, <<" ","p","o","s">>, <<"U","P","G","R","A","D">>,
     <<"D","o","w","n"," ","g","r","a","d","e">>, <<"O","n"," ","w","a","t","c","h">>}

BothWatchArgs ==
    {a \o <<"/">> \o b : a \in {sNEGATIVE, sDOWNGRADE, <<"d","o","w","n","g","r","a","d","e">>},
                         b \in {sPOSITIVE, sUPGRADE, <<"U","p","g","r","a","d","e">>}}
    \cup {a \o <<" ">> \o b : a \in {sPOSITIVE, <<"u","p","g","r","a","d","e">>},
                             b \in {sNEGATIVE, <<"D","o","w","n","g","r","a","d","e">>}}

HelperArgs ==
    UNION {Casings(w) : w \in OutlookWords}
    \cup {pre \o c \o post : pre \in Pads(MaxPad), post \in Pads(MaxPad),
                             c \in UNION {Casings(w) : w \in WatchWords}}
    \cup BothWatchArgs
    \cup OtherArgs

InitHelper ==
    /\ session = 0
    /\ refDataService = 0
    /\ sessions = <<>>
    /\ stream = <<>>
    /\ pc = "helper"
    /\ handler = "none"
    /\ served = 0
    /\ limit = 0
    /\ idx = 0
    /\ isins = <<>>
    /\ screened = <<>>
    /\ securities = <<>>
    /\ fields = <<>>
    /\ isin = <<>>
    /\ bi = 0
    /\ all_results = <<>>
    /\ lastEvent = "none"
    /\ sent = <<>>
    /\ excSeen = FALSE
    /\ raises = 0
    /\ response = NoResponse
    /\ arg \in HelperArgs
    /\ ret = None
    /\ applied = "none"

programVars ==
    <<connVars, stream, pc, handler, served, screenVars, fetchVars, lastEvent,
      sent, excSeen, raises, response>>

\* parse_outlook(arg)
CallParseOutlook ==
    /\ pc = "helper"
    /\ applied = "none"
    /\ ret' = parse_outlook(arg)
    /\ applied' = "parse_outlook"
    /\ UNCHANGED <<programVars, arg>>

\* parse_outlook of the value parse_outlook returned
CallParseOutlookAgain ==
    /\ pc = "helper"
    /\ applied = "parse_outlook"
    /\ arg' = ret
    /\ ret' = parse_outlook(ret)
    /\ applied' = "parse_outlook_again"
    /\ UNCHANGED programVars

\* parse_watchlist(arg)
CallParseWatchlist ==
    /\ pc = "helper"
    /\ applied = "none"
    /\ ret' = parse_watchlist(arg)
    /\ applied' = "parse_watchlist"
    /\ UNCHANGED <<programVars, arg>>

NextHelper ==
    \/ CallParseOutlook
    \/ CallParseOutlookAgain
    \/ CallParseWatchlist

SpecHelper == InitHelper /\ [][NextHelper]_vars

(***************************************************************************)
(* Properties                                                              *)
(***************************************************************************)
NoDuplicates(s) == \A i, j \in DOMAIN s : i /= j => s[i] /= s[j]
IsPrefix(a, b) == Len(a) <= Len(b) /\ SubSeq(b, 1, Len(a)) = a
IsList(v) == v /= LIMIT_REACHED

OutlookSource ==
    [moodys_outlook |-> "RTG_MOODY_OUTLOOK", sp_outlook |-> "RTG_SP_OUTLOOK",
     fitch_outlook |-> "RTG_FITCH_OUTLOOK"]
WatchSource ==
    [moodys_watch |-> "RTG_MOODY_REVIEW", sp_watch |-> "RTG_SP_CREDITWATCH",
     fitch_watch |-> "RTG_FITCH_WATCH"]

\* C1: every record the fetcher has stored transforms into a record that has
\* every canonical attribute, none of them null, with "stable" and
\* "Not on watchlist" for the outlooks and watch statuses the vendor omitted.
C1_TransformFullyPopulated ==
    \A i \in DOMAIN all_results :
        LET raw == all_results[i].val
            rec == transform_bloomberg_data(raw)
        IN  /\ DOMAIN rec = CanonicalAttrs
            /\ \A a \in CanonicalAttrs : rec[a] /= None
            /\ \A a \in OutlookAttrs :
                   Get(raw, OutlookSource[a], None) = None => rec[a] = stable
            /\ \A a \in WatchAttrs :
                   Get(raw, WatchSource[a], None) = None => rec[a] = NotOnWatchlist

EventReportsQuota(event) ==
    /\ event.type \in {"RESPONSE", "PARTIAL_RESPONSE"}
    /\ \E j \in DOMAIN event.msgs :
          /\ event.msgs[j].hasResponseError
          /\ Contains(event.msgs[j].subcategory, sDAILY_CAPACITY_REACHED)

\* C2: when the screening drain loop reads an event with a message whose
\* response error is the daily-quota one, screen_usd_bonds returns
\* LIMIT_REACHED and GET /api/bonds answers 429 with the error payload,
\* whatever the list held; and a LIMIT_REACHED result never comes with a
\* 503 or a live payload.
C2_QuotaSentinelGives429 ==
    [][/\ (/\ pc = "screen_drain"
           /\ stream /= <<>>
           /\ stream' = Tail(stream)
           /\ EventReportsQuota(Head(stream)))
          => /\ screened' = LIMIT_REACHED
             /\ response' = ErrorPayload(429, "limit_reached")
             /\ pc' = "idle"
       /\ (handler' = "bonds" /\ screened' = LIMIT_REACHED)
              => response' = ErrorPayload(429, "limit_reached")]_vars

C2_Witness ==
    /\ screened = LIMIT_REACHED
    /\ response = ErrorPayload(429, "limit_reached")
    /\ isins /= <<>>

\* C3: when fetch_reference_data has returned, every security that the
\* vendor answered without a securityError, in a batch that raised no
\* exception, is a key of the merged mapping.
C3_AnsweredIdentifiersMerged ==
    pc = "returned" =>
        \A k \in DOMAIN sent :
            (sent[k].kind = "refdata" /\ ~sent[k].raised)
                => sent[k].answered \subseteq DictKeys(all_results)

CeilDiv(n, d) == (n + d - 1) \div d

NonBlankStripped(s) ==
    LET keep == SelectSeq(s, LAMBDA x : Strip(x) /= <<>>)
    IN  [i \in DOMAIN keep |-> Strip(keep[i])]

\* C4: without an exception, fetch_reference_data with n identifiers has
\* sent ceil(n / batch_size) requests when it returns, the k-th carrying
\* the non-blank identifiers of the k-th slice in input order, so that all
\* requests together carry every non-blank identifier once; with an empty
\* list it has sent nothing and returns the empty mapping.
C4_BatchesPartitionInput ==
    (pc = "returned" /\ ~excSeen) =>
        LET n == Len(securities)
        IN  /\ Len(sent) = CeilDiv(n, batch_size)
            /\ \A k \in DOMAIN sent :
                   /\ sent[k].kind = "refdata"
                   /\ sent[k].carried =
                          NonBlankStripped(SubSeq(securities, (k - 1) * batch_size + 1,
                                                  Min(k * batch_size, n)))
            /\ Flatten([k \in DOMAIN sent |-> sent[k].carried])
                   = NonBlankStripped(securities)
            /\ n = 0 => (sent = <<>> /\ all_results = <<>>)

C4_Witness ==
    /\ pc = "returned"
    /\ ~excSeen
    /\ Len(securities) = 5
    /\ Len(sent) = 3
    /\ Len(sent[1].carried) = 2
    /\ Len(sent[3].carried) = 1
    /\ \E i \in DOMAIN securities : securities[i] = idBlank

\* C5: the running identifier list never holds an identifier twice, it only
\* grows at its end while an index is drained, and the returned list is a
\* duplicate-free prefix of it.
C5_NoDuplicateIdentifiers ==
    /\ [](/\ NoDuplicates(isins)
          /\ IsList(screened) => (NoDuplicates(screened) /\ IsPrefix(screened, isins)))
    /\ [][pc = "screen_drain" => IsPrefix(isins, isins')]_vars

\* identifiers delivered by two indices, and by one index twice
C5_Witness ==
    /\ handler = "bonds"
    /\ isins = <<idA, idB, idPadA, idC, idBlank>>
    /\ Len(sent) = 2

\* C6 as stated: the running list never holds more than TargetCount entries
C6_RunningListAtMostTarget == Len(isins) <= TargetCount

\* C6: no membership request is sent once TargetCount identifiers are held,
\* and the returned list is the first TargetCount entries of the running
\* list at most; while one index is drained the running list may grow
\* past TargetCount.
C6_ReturnedListAtMostTarget ==
    /\ [](IsList(screened) =>
              /\ Len(screened) <= TargetCount
              /\ screened \in {<<>>, SubSeq(isins, 1, Min(Len(isins), TargetCount))})
    /\ [][(pc = "screen_loop" /\ pc' = "screen_drain") => Len(isins) < TargetCount]_vars

C6_Witness ==
    /\ pc = "fetch_loop"
    /\ Len(isins) > TargetCount
    /\ Len(screened) = TargetCount

LivePayload(r) ==
    /\ r.status = 200
    /\ r.mode = "live"
    /\ r.error = ""
ErrorShape(r) ==
    /\ r.mode = "error"
    /\ r.error /= ""
    /\ r.bonds = <<>>
    /\ r.count = 0

\* C7 as stated: GET /api/bonds answers 200 live, or the error payload
\* with 503 or 429, and nothing else
C7_OnlyLive503Or429 ==
    response.endpoint = "bonds" =>
        \/ LivePayload(response)
        \/ ErrorShape(response) /\ response.status \in {503, 429}

\* C7: GET /api/bonds answers 200 live, or the error payload with 503, 429
\* or 500; 500 is the answer when the handler caught an exception (a limit
\* that is no integer).
C7_LiveOrErrorPayload ==
    response.endpoint = "bonds" =>
        \/ LivePayload(response)
        \/ ErrorShape(response) /\ response.status \in {503, 429}
        \/ ErrorShape(response) /\ response.status = 500 /\ excSeen

C7_Witness ==
    /\ response = ErrorPayload(500, "exception")
    /\ handler = "bonds"
    /\ session /= 0

\* C8: when the vendor answered any request of the call, membership or
\* reference data, with the daily quota error, GET /api/bonds answers 429
\* (stated for the calls in which nothing raised, so that every response
\* was read by the drain loop of its own request).
C8_QuotaAlways429 ==
    (/\ response.endpoint = "bonds"
     /\ ~excSeen
     /\ \E k \in DOMAIN sent : sent[k].quota)
        => response.status = 429

\* C9: after a POST /api/connect that failed, GET /api/health reports
\* bloomberg_connected = false, GET /api/bonds (with an integer limit)
\* answers the not-connected 503 and GET /api/bonds/<identifier> answers 503.
C9_FailedConnectNotConnected ==
    [][(response.endpoint = "connect" /\ response.status = 500) =>
          /\ response'.endpoint = "health" => ~response'.flag
          /\ (handler' = "bonds" /\ ~excSeen') =>
                 response' = ErrorPayload(503, "not_connected")
          /\ handler' = "bond" => response'.status = 503]_vars

\* C10: a 200 response of GET /api/bonds is live, its count is the number
\* of its records, it has at least one record and every record has a
\* non-empty issuer; when no fetched record has an issuer the answer is
\* the 503 error payload.
C10_LiveBondsHaveIssuers ==
    /\ (response.endpoint = "bonds" /\ response.status = 200) =>
           /\ response.mode = "live"
           /\ response.count = Len(response.bonds)
           /\ Len(response.bonds) >= 1
           /\ \A i \in DOMAIN response.bonds : Truthy(response.bonds[i].issuer)
    /\ (/\ response.endpoint = "bonds"
        /\ all_results /= <<>>
        /\ \A i \in DOMAIN all_results :
               ~Truthy(transform_bloomberg_data(all_results[i].val).issuer))
           => response = ErrorPayload(503, "empty_issuers")

\* a live answer from which a record without issuer was dropped
C10_Witness ==
    /\ response.endpoint = "bonds"
    /\ response.status = 200
    /\ Len(all_results) > response.count

\* C11: in the GET /api/bonds pipeline a security for which the vendor
\* omitted ISSUER but returned a non-empty ISSUER_BULK gets issuer equal to
\* the ISSUER_BULK value and is kept in the live payload; issuer is "" only
\* when the vendor returned neither.
C11_IssuerFallsBackToBulk ==
    handler = "bonds" =>
        \A i \in DOMAIN all_results :
            LET vendor == RefEntry(all_results[i].key).fieldData
                rec == transform_bloomberg_data(all_results[i].val)
            IN  /\ (/\ "ISSUER" \notin DOMAIN vendor
                    /\ "ISSUER_BULK" \in DOMAIN vendor
                    /\ Truthy(Get(vendor, "ISSUER_BULK", None)))
                       => /\ rec.issuer = vendor["ISSUER_BULK"]
                          /\ (response.endpoint = "bonds" /\ response.status = 200)
                                 => \E j \in DOMAIN response.bonds : response.bonds[j] = rec
                /\ rec.issuer = EmptyStr
                       => ("ISSUER" \notin DOMAIN vendor /\ "ISSUER_BULK" \notin DOMAIN vendor)

OutlookValues == {positive, negative, stable, developing}

\* the held session is started and the reference-data service was opened on it
ActiveConnection ==
    /\ session /= 0
    /\ sessions[session] = "started"
    /\ refDataService = session

\* C12: GET /api/bonds/<identifier> answers 503 without a vendor request
\* when there is no active connection; with a connection it answers 200
\* exactly when the fetched mapping has a key equal to the requested
\* identifier, with the transformed record of that key (issuer is its raw
\* ISSUER, moodys_outlook the normalized form of its raw outlook), and 404
\* otherwise.
C12_BondByIdentifier ==
    (response.endpoint = "bond") =>
        /\ ~ActiveConnection => (response.status = 503 /\ sent = <<>>)
        /\ ActiveConnection =>
               /\ response.status \in {200, 404}
               /\ (response.status = 200) <=> (isin \in DictKeys(all_results))
               /\ response.status = 200 =>
                      LET raw == DictGet(all_results, isin)
                          rec == response.bonds[1]
                      IN  /\ response.bonds = <<transform_bloomberg_data(raw)>>
                          /\ rec.issuer = raw["ISSUER"]
                          /\ rec.moodys_outlook \in OutlookValues
                          /\ Truthy(raw["RTG_MOODY_OUTLOOK"]) =>
                                 \E k \in DOMAIN outlook_map :
                                     /\ k = Upper(raw["RTG_MOODY_OUTLOOK"])
                                     /\ rec.moodys_outlook = outlook_map[k]

\* a step that accepts a GET /api/bonds while no Session object was ever made
BondsRequestNeverConnected ==
    /\ pc = "idle"
    /\ handler' = "bonds"
    /\ served' = served + 1
    /\ session = 0
    /\ sessions = <<>>

\* C13 as stated: every such request is answered 503 with the
\* not-connected error payload
C13_NeverConnectedAlways503 ==
    [][BondsRequestNeverConnected =>
           response' = ErrorPayload(503, "not_connected")]_vars

\* C13: GET /api/bonds while connect was never called, with a limit that is
\* absent or an integer, answers 503 with the not-connected error payload;
\* with a limit that is no integer it answers the error payload with 500.
\* Either way no membership or reference-data request is sent and the
\* connection state is left unchanged.
C13_NeverConnectedNoRequest ==
    [][BondsRequestNeverConnected =>
           /\ response' = IF excSeen' THEN ErrorPayload(500, "exception")
                          ELSE ErrorPayload(503, "not_connected")
           /\ ErrorShape(response')
           /\ pc' = "idle"
           /\ sent' = <<>>
           /\ stream' = stream
           /\ UNCHANGED connVars]_vars

C13_Witness ==
    /\ handler = "bonds"
    /\ response = ErrorPayload(503, "not_connected")
    /\ session = 0
    /\ sessions = <<>>
    /\ sent = <<>>
    /\ ~excSeen

IsCasingOf(s, word) ==
    /\ s /= None
    /\ Len(s) = Len(word)
    /\ \A i \in DOMAIN word : s[i] \in {word[i], LowerChar(word[i])}

OutlookOf(word) ==
    IF word \in {sPOSITIVE, sPOS} THEN positive
    ELSE IF word \in {sNEGATIVE, sNEG} THEN negative
    ELSE IF word \in {sSTABLE, sSTA} THEN stable
    ELSE developing

\* C14: parse_outlook always yields positive, negative, stable or
\* developing; every casing of POSITIVE, NEGATIVE, STABLE, DEVELOPING, POS,
\* NEG, STA and DEV maps to the value of that word; absent and unmatched
\* input maps to stable; and normalizing a normalized value returns it
\* unchanged.
C14_OutlookNormalization ==
    /\ applied = "parse_outlook" =>
           /\ ret \in OutlookValues
           /\ \A w \in OutlookWords : IsCasingOf(arg, w) => ret = OutlookOf(w)
           /\ (\A w \in OutlookWords : ~IsCasingOf(arg, w)) => ret = stable
    /\ applied = "parse_outlook_again" => (arg \in OutlookValues /\ ret = arg)

\* a mixed-case abbreviation, normalized and normalized again
C14_Witness ==
    /\ applied = "parse_outlook_again"
    /\ arg = developing
    /\ ret = developing

ContainsAnyCase(s, word) ==
    /\ s /= None
    /\ \E off \in 0..(Len(s) - Len(word)) :
           \A i \in DOMAIN word : s[off + i] \in {word[i], LowerChar(word[i])}

\* C15: parse_watchlist returns "Positive" for every input that contains
\* "positive" or "upgrade" in any case, also when it contains "negative" or
\* "downgrade" as well; otherwise "Negative" for every input that contains
\* "negative" or "downgrade" in any case; and "Not on watchlist" for every
\* other input, the empty and the absent one included.
C15_WatchStatusMapping ==
    applied = "parse_watchlist" =>
        LET pos == ContainsAnyCase(arg, sPOSITIVE) \/ ContainsAnyCase(arg, sUPGRADE)
            neg == ContainsAnyCase(arg, sNEGATIVE) \/ ContainsAnyCase(arg, sDOWNGRADE)
        IN  /\ ret \in {WatchPositive, WatchNegative, NotOnWatchlist}
            /\ pos => ret = WatchPositive
            /\ (~pos /\ neg) => ret = WatchNegative
            /\ (~pos /\ ~neg) => ret = NotOnWatchlist

\* an input that names a downgrade and an upgrade
C15_Witness ==
    /\ applied = "parse_watchlist"
    /\ ContainsAnyCase(arg, sDOWNGRADE)
    /\ ContainsAnyCase(arg, sUPGRADE)
    /\ ret = WatchPositive

\* the step is an iteration of a drain loop in which nothing raises and
\* which is not left by the quota return
DrainIteration ==
    /\ pc \in {"screen_drain", "fetch_drain"}
    /\ raises' = raises
    /\ sent' = sent
    /\ screened' /= LIMIT_REACHED

\* the type of the event nextEvent returns in the step
EventRead ==
    IF stream /= <<>> /\ stream' = Tail(stream) THEN Head(stream).type ELSE "TIMEOUT"

\* C16: a drain loop of screen_usd_bonds or fetch_reference_data ends
\* normally only in an iteration that read an event of type RESPONSE, after
\* the data of that event has been processed; an iteration that read a
\* TIMEOUT, a PARTIAL_RESPONSE or an event of any other type leaves the
\* loop running.
C16_DrainEndsOnFinalResponse ==
    [][DrainIteration =>
          /\ pc' /= pc =>
                 /\ EventRead = "RESPONSE"
                 /\ lastEvent' = "RESPONSE"
                 /\ pc = "screen_drain" =>
                        (pc' = "screen_loop"
                         /\ isins' = ScreenEventResult(isins, Head(stream)).isins)
                 /\ pc = "fetch_drain" =>
                        (pc' = "fetch_loop"
                         /\ all_results' =
                                FetchEventResult(all_results, Head(stream), fields).results)
          /\ EventRead /= "RESPONSE" => pc' = pc
          /\ EventRead = "RESPONSE" => pc' /= pc]_vars

\* a partial response, then the final one whose members are in the list
C16_Witness ==
    /\ pc = "screen_loop"
    /\ lastEvent = "RESPONSE"
    /\ Len(sent) = 1
    /\ ~excSeen
    /\ isins = <<idA, idD, idE>>

InScreen == pc \in {"screen_loop", "screen_drain"}
InFetch == pc \in {"fetch_loop", "fetch_drain"}

\* C17: when the vendor delivers the events of every request, the final
\* RESPONSE included, every call of screen_usd_bonds and of
\* fetch_reference_data returns, and every GET /api/bonds and
\* GET /api/bonds/<identifier> is answered.
C17_CallsReturn ==
    /\ InScreen ~> ~InScreen
    /\ InFetch ~> ~InFetch
    /\ (InScreen \/ InFetch) ~> (pc = "idle" /\ response.endpoint \in {"bonds", "bond"})

\* a call that was answered after a drain loop had seen a TIMEOUT
C17_Witness ==
    /\ pc = "idle"
    /\ response.endpoint = "bonds"
    /\ response.status = 200
    /\ Len(sent) = 3

\* C18: outside the drain loops, that is whenever a request is about to be
\* sent and whenever screen_usd_bonds or fetch_reference_data has returned,
\* the session's event stream holds no response event: every response
\* event was read by the drain loop of the request it answers.
C18_NoUnconsumedResponse ==
    pc \notin {"screen_drain", "fetch_drain"} =>
        \A i \in DOMAIN stream : stream[i].type \notin {"RESPONSE", "PARTIAL_RESPONSE"}

\* the member entries of an event in the order the screener visits them
MemberEntries(event) ==
    LET ofSecurity(sd) ==
            IF sd.securityError \/ ~sd.hasFieldData THEN <<>>
            ELSE Flatten([k \in DOMAIN member_fields |->
                             Get(sd.fieldData, member_fields[k], <<>>)])
        ofMessage(msg) ==
            IF msg.hasResponseError \/ ~msg.hasSecurityData THEN <<>>
            ELSE Flatten([i \in DOMAIN msg.securityData |->
                             ofSecurity(msg.securityData[i])])
    IN  Flatten([m \in DOMAIN event.msgs |-> ofMessage(event.msgs[m])])

\* C19: the member entry the screener visits next, with the running list
\* as it is, contributes at most one identifier, which is the value of the
\* first sub-field in priority order that the entry has with a non-empty
\* value; when that value is already in the list, and when the entry has no
\* such sub-field, the list stays as it is.
C19_FirstSubFieldOnly ==
    (/\ pc = "screen_drain"
     /\ stream /= <<>>
     /\ Head(stream).type \in {"RESPONSE", "PARTIAL_RESPONSE"}
     /\ ~EventReportsQuota(Head(stream))
     /\ MemberEntries(Head(stream)) /= <<>>)
        => LET member_entry == Head(MemberEntries(Head(stream)))
               out == ScreenMemberEntry(isins, member_entry)
               has == {k \in DOMAIN sub_fields :
                          /\ sub_fields[k] \in DOMAIN member_entry
                          /\ Get(member_entry, sub_fields[k], EmptyStr) /= EmptyStr}
           IN  IF has = {} THEN out = isins
               ELSE LET k1 == CHOOSE k \in has : \A j \in has : k <= j
                        first == member_entry[sub_fields[k1]]
                    IN  /\ out \in {isins, Append(isins, first)}
                        /\ first \in Range(isins) => out = isins

\* the step raises an exception inside a batch of fetch_reference_data
BatchRaises ==
    /\ InFetch
    /\ \/ raises' > raises
       \/ Len(sent') = Len(sent) /\ sent' /= sent

\* C20: a batch of fetch_reference_data that raises is abandoned and the
\* call goes on: the loop moves to the next batch, no batch is requested
\* twice, every batch is requested unless the SDK raised before its own
\* request was sent, and no key ever leaves the mapping, so that every
\* entry stored before an exception is in the returned mapping.
C20_FailedBatchAbandoned ==
    /\ [](\A j, k \in DOMAIN sent :
              (j < k /\ sent[j].kind = "refdata" /\ sent[k].kind = "refdata")
                  => sent[j].pos < sent[k].pos)
    /\ [](pc = "returned" =>
              /\ ~FetchMore
              /\ Len(sent) >= CeilDiv(Len(securities), batch_size) - raises
              /\ raises = 0 => Len(sent) = CeilDiv(Len(securities), batch_size))
    /\ [][InFetch =>
              /\ DictKeys(all_results) \subseteq DictKeys(all_results')
              /\ BatchRaises => (pc' = "fetch_loop" /\ bi' = bi + batch_size)]_vars

\* the first batch stored an entry and then raised, the second was requested
C20_Witness ==
    /\ pc = "returned"
    /\ securities = <<idA, idE, idBlank>>
    /\ Len(sent) = 2
    /\ sent[1].raised
    /\ raises = 0
    /\ DictKeys(all_results) = {idA}

\* the sessions the process still holds a handle of: the session handle
\* itself, and the session the held service object was opened on
HeldSessions == {session, refDataService} \ {0}

\* C21: at most one vendor session is live at any time, and the session
\* handle and the reference-data service handle held by the process belong
\* to the same session.  No session is ever stopped by the program; a
\* session that no handle refers to any longer is counted as released.
C21_AtMostOneLiveSession ==
    /\ Cardinality({s \in HeldSessions : sessions[s] = "started"}) <= 1
    /\ (session /= 0 /\ refDataService /= 0) => refDataService = session

\* C22: for every integer limit, GET /api/bonds requests reference data
\* for at most limit identifiers, taken from the front of the screened
\* list, and a 200 live response carries at most limit bond records.
C22_LimitApplied ==
    /\ (handler = "bonds" /\ InFetch) =>
           /\ Len(securities) <= limit
           /\ IsPrefix(securities, screened)
    /\ (response.endpoint = "bonds" /\ response.status = 200) =>
           /\ response.count <= limit
           /\ Len(response.bonds) <= limit
====
